---------------------------- MODULE Spec2Model ----------------------------
(***************************************************************************)
(* Model of marketbeat/marketbeat.py: the table locator (readTable), the   *)
(* field parsers, the two workflows (getDailyRatingsTable,                 *)
(* getSymbolRatingsTable) and the dataset builder (buildDataFrame).        *)
(*                                                                         *)
(* Conventions.                                                            *)
(*  - A Python value that may be None is a sequence: <<>> is None and      *)
(*    <<v>> is the value v.                                                *)
(*  - Python strings are TLA+ strings, handled character by character.     *)
(*    The arrow glyph U+279D of the price and rating cells is written ">". *)
(*  - A raised exception is a result record [ok |-> FALSE, err |-> name].  *)
(*  - A parsed document (BeautifulSoup) is a sequence of elements in       *)
(*    document order; a table element holds its rows (tr), a row its class *)
(*    and cells (td), a cell the sub-markup the parsers look at.           *)
(***************************************************************************)
EXTENDS Integers, Sequences, FiniteSets, TLC

\* ------------------------------------------------------------------ bounds
MaxRows == 3   \* body rows of the ratings table
MaxElems == 3  \* elements of a generated document (readTable specification)
MaxRecs == 3   \* records of a Record list (buildDataFrame specification)

\* --------------------------------------------------------------- constants
BASE_URL == "https://www.marketbeat.com"
AD_CLASS == "bottom-sort"
ISSUER_PREFIX == "/ratings/by-issuer/"
ISSUER_SUFFIX == "-stock-recommendations"
HISTORY_HINT == "Ratings History"
ARROW == ">"

None == <<>>
Some(v) == <<v>>
Raise(e) == [ok |-> FALSE, err |-> e]
Return(v) == [ok |-> TRUE, val |-> v]

\* ------------------------------------------------------------ str methods
Char(s, i) == SubSeq(s, i, i)
Digits == {"0", "1", "2", "3", "4", "5", "6", "7", "8", "9"}
Letters == {"a", "b", "c", "d", "e", "f", "g", "h", "i", "j", "k", "l", "m",
            "n", "o", "p", "q", "r", "s", "t", "u", "v", "w", "x", "y", "z",
            "A", "B", "C", "D", "E", "F", "G", "H", "I", "J", "K", "L", "M",
            "N", "O", "P", "Q", "R", "S", "T", "U", "V", "W", "X", "Y", "Z"}
\* \w of the re module (ASCII part)
WordChars == Digits \cup Letters \cup {"_"}

DigitVal(c) ==
    CASE c = "0" -> 0 [] c = "1" -> 1 [] c = "2" -> 2 [] c = "3" -> 3
      [] c = "4" -> 4 [] c = "5" -> 5 [] c = "6" -> 6 [] c = "7" -> 7
      [] c = "8" -> 8 [] c = "9" -> 9

DigitChar(d) ==
    CASE d = 0 -> "0" [] d = 1 -> "1" [] d = 2 -> "2" [] d = 3 -> "3"
      [] d = 4 -> "4" [] d = 5 -> "5" [] d = 6 -> "6" [] d = 7 -> "7"
      [] d = 8 -> "8" [] d = 9 -> "9"

AllDigits(s) == \A i \in 1..Len(s) : Char(s, i) \in Digits

RECURSIVE ToInt(_)
ToInt(s) ==
    IF Len(s) = 0 THEN 0
    ELSE 10 * ToInt(SubSeq(s, 1, Len(s) - 1)) + DigitVal(Char(s, Len(s)))

RECURSIVE ToStr(_)
ToStr(n) == IF n < 10 THEN DigitChar(n) ELSE ToStr(n \div 10) \o DigitChar(n % 10)

RECURSIVE ZeroPad(_, _)
ZeroPad(s, w) == IF Len(s) >= w THEN s ELSE ZeroPad("0" \o s, w)

\* whether p occurs in s at index i
OccursAt(s, p, i) ==
    /\ i >= 1
    /\ i + Len(p) - 1 <= Len(s)
    /\ SubSeq(s, i, i + Len(p) - 1) = p

\* str.find, 1-based; 0 when p does not occur in s from index i on
RECURSIVE FindFrom(_, _, _)
FindFrom(s, p, i) ==
    IF i + Len(p) - 1 > Len(s) THEN 0
    ELSE IF OccursAt(s, p, i) THEN i
    ELSE FindFrom(s, p, i + 1)

Find(s, p) == FindFrom(s, p, 1)
Contains(s, p) == Find(s, p) # 0

\* str.replace(p, r), p non-empty
RECURSIVE Replace(_, _, _)
Replace(s, p, r) ==
    LET i == Find(s, p) IN
    IF i = 0 THEN s
    ELSE SubSeq(s, 1, i - 1) \o r
         \o Replace(SubSeq(s, i + Len(p), Len(s)), p, r)

\* str.split(sep), sep non-empty
RECURSIVE Split(_, _)
Split(s, sep) ==
    LET i == Find(s, sep) IN
    IF i = 0 THEN <<s>>
    ELSE <<SubSeq(s, 1, i - 1)>> \o Split(SubSeq(s, i + Len(sep), Len(s)), sep)

RECURSIVE LStrip(_)
LStrip(s) ==
    IF Len(s) > 0 /\ Char(s, 1) = " " THEN LStrip(SubSeq(s, 2, Len(s))) ELSE s

RECURSIVE RStrip(_)
RStrip(s) ==
    IF Len(s) > 0 /\ Char(s, Len(s)) = " "
    THEN RStrip(SubSeq(s, 1, Len(s) - 1)) ELSE s

Strip(s) == LStrip(RStrip(s))

Last(seq) == seq[Len(seq)]

\* '_'.join(parts)
RECURSIVE Join(_, _)
Join(sep, parts) ==
    IF Len(parts) = 0 THEN ""
    ELSE IF Len(parts) = 1 THEN parts[1]
    ELSE parts[1] \o sep \o Join(sep, Tail(parts))

\* ------------------------------------------------------- dates (datetime)
IsLeap(y) == (y % 4 = 0 /\ y % 100 # 0) \/ y % 400 = 0

DaysIn(m, y) ==
    IF m = 2 THEN (IF IsLeap(y) THEN 29 ELSE 28)
    ELSE IF m \in {4, 6, 9, 11} THEN 30 ELSE 31

\* datetime.strptime(s, '%m/%d/%Y').strftime(DATE_FORMAT); ValueError when
\* s is not month/day/year or names no calendar day
StrpStrf(s) ==
    LET parts == Split(s, "/") IN
    IF Len(parts) # 3 THEN Raise("ValueError")
    ELSE LET ms == parts[1]
             ds == parts[2]
             ys == parts[3]
         IN  IF ~ ( /\ Len(ms) \in {1, 2} /\ AllDigits(ms)
                    /\ Len(ds) \in {1, 2} /\ AllDigits(ds)
                    /\ Len(ys) = 4 /\ AllDigits(ys) )
             THEN Raise("ValueError")
             ELSE LET m == ToInt(ms)
                      d == ToInt(ds)
                      y == ToInt(ys)
                  IN  IF m \in 1..12 /\ y >= 1 /\ d >= 1 /\ d <= DaysIn(m, y)
                      THEN Return(ZeroPad(ToStr(y), 4) \o "-"
                                  \o ZeroPad(ToStr(m), 2) \o "-"
                                  \o ZeroPad(ToStr(d), 2))
                      ELSE Raise("ValueError")

\* the group of DATE_RE = \((\d{1,2}/\d{1,2}/\d{4})\) matched at index i of
\* s, as a None-able value
DateReMatchAt(s, i) ==
    LET Cand == { <<a, b>> \in {1, 2} \X {1, 2} :
                    LET g == SubSeq(s, i + 1, i + a + b + 6) IN
                    /\ i + a + b + 7 <= Len(s)
                    /\ Char(s, i) = "("
                    /\ AllDigits(SubSeq(g, 1, a))
                    /\ Char(g, a + 1) = "/"
                    /\ AllDigits(SubSeq(g, a + 2, a + b + 1))
                    /\ Char(g, a + b + 2) = "/"
                    /\ AllDigits(SubSeq(g, a + b + 3, a + b + 6))
                    /\ Char(s, i + a + b + 7) = ")" }
    IN  IF Cand = {} THEN None
        ELSE LET c == CHOOSE c \in Cand : TRUE
             IN  Some(SubSeq(s, i + 1, i + c[1] + c[2] + 6))

\* DATE_RE.search(s): the group of the leftmost match, or None
RECURSIVE DateReSearchFrom(_, _)
DateReSearchFrom(s, i) ==
    IF i > Len(s) THEN None
    ELSE IF DateReMatchAt(s, i) # None THEN DateReMatchAt(s, i)
    ELSE DateReSearchFrom(s, i + 1)

DateReSearch(s) == DateReSearchFrom(s, 1)

\* ---------------------------------------------------------- field parsers
\* A cell (td Tag) is a record
\*   text   : tag.text
\*   a      : tag.find("a"): None or [href : None-able str, text : str]
\*   ticker : tag.find("div", {"class": "ticker-area"}): None-able text
\*   title  : tag.find("div", {"class": "title-area"}): None-able text
\*   sort   : the data-sort-value attribute, None-able

\* maximal run of [-\w] characters of s from index i on
RECURSIVE WordRun(_, _)
WordRun(s, i) ==
    IF i <= Len(s) /\ Char(s, i) \in (WordChars \cup {"-"})
    THEN Char(s, i) \o WordRun(s, i + 1)
    ELSE ""

parseSymbolTag(tag) ==
    IF tag.ticker = None THEN Raise("AttributeError")
    ELSE IF tag.a = None THEN Raise("AttributeError")
    ELSE LET href == IF tag.a[1].href = None THEN "" ELSE tag.a[1].href[1]
             parts == Split(href, "/")
         IN  IF Len(parts) < 3 THEN Raise("IndexError")
             ELSE IF tag.title = None THEN Raise("AttributeError")
             ELSE Return([symbol |-> tag.ticker[1],
                          company |-> tag.title[1],
                          exchange |-> Strip(parts[3])])

parseBrokerageTag(tag) ==
    IF tag.a = None THEN Raise("AttributeError")
    ELSE IF tag.a[1].href = None THEN Raise("TypeError")
    ELSE LET href == tag.a[1].href[1]
             code == WordRun(href, Len(ISSUER_PREFIX) + 1)
         IN  IF ~ OccursAt(href, ISSUER_PREFIX, 1) \/ code = ""
             THEN Raise("AttributeError")
             ELSE Return([brokerage |-> tag.a[1].text,
                          brokerage_code |-> Replace(code, ISSUER_SUFFIX, "")])

parseAnalystTag(tag) ==
    Return(IF tag.a # None THEN Some(Strip(tag.a[1].text)) ELSE None)

\* float(s) for a decimal literal: [sign] digits [. digits]; the value is
\* kept as sign, integer part and fraction digits without trailing zeros
RECURSIVE DropTrailingZeros(_)
DropTrailingZeros(s) ==
    IF Len(s) > 0 /\ Char(s, Len(s)) = "0"
    THEN DropTrailingZeros(SubSeq(s, 1, Len(s) - 1)) ELSE s

Float(s) ==
    LET signed == Len(s) > 0 /\ Char(s, 1) \in {"+", "-"}
        body == IF signed THEN SubSeq(s, 2, Len(s)) ELSE s
        parts == Split(body, ".")
        ip == parts[1]
        fp == IF Len(parts) = 2 THEN parts[2] ELSE ""
    IN  IF /\ Len(parts) \in {1, 2}
           /\ AllDigits(ip) /\ AllDigits(fp)
           /\ Len(ip) + Len(fp) > 0
        THEN Return([neg |-> signed /\ Char(s, 1) = "-",
                     int |-> ToInt(ip),
                     frac |-> DropTrailingZeros(fp)])
        ELSE Raise("ValueError")

\* int(s) for [sign] digits, surrounding blanks allowed
Int_(s) ==
    LET t == Strip(s)
        signed == Len(t) > 0 /\ Char(t, 1) \in {"+", "-"}
        body == IF signed THEN SubSeq(t, 2, Len(t)) ELSE t
    IN  IF Len(body) > 0 /\ AllDigits(body)
        THEN Return(IF signed /\ Char(t, 1) = "-"
                    THEN 0 - ToInt(body) ELSE ToInt(body))
        ELSE Raise("ValueError")

parsePriceTargetTag(tag) ==
    LET pt == Last(Split(tag.text, ARROW))
    IN  Float(Strip(Replace(Replace(pt, "$", ""), ",", "")))

parseRatingTag(tag) ==
    LET rating == Strip(Last(Split(tag.text, ARROW)))
        code == Int_(IF tag.sort = None THEN "-1" ELSE tag.sort[1])
    IN  IF code.ok THEN Return([rating |-> rating, rating_code |-> code.val])
        ELSE code

parseDateTag(tag) == StrpStrf(tag.text)

\* row[k].text.strip()
parseActionTag(tag) == Return(Strip(tag.text))

\* row[k] of a row without a cell k
NoSuchCell == Raise("IndexError")

\* the first raised result of a sequence of results, in evaluation order
FirstRaised(rs) ==
    rs[CHOOSE i \in 1..Len(rs) : ~ rs[i].ok /\ \A j \in 1..(i - 1) : rs[j].ok]

\* the dict a processRow returns; a dict is a sequence of <<key, value>>
RatingDict(symbol, date, exchange, action, brk, analyst, price, rat) ==
    << <<"symbol", symbol>>, <<"date", date>>, <<"exchange", exchange>>,
       <<"action", action>>, <<"brokerage", brk.brokerage>>,
       <<"brokerage_code", brk.brokerage_code>>, <<"analyst", analyst>>,
       <<"price_target", price>>, <<"rating", rat.rating>>,
       <<"rating_code", rat.rating_code>> >>

\* getDailyRatingsTable.processRow for one row; date is the closure's date
DailyProcessRow(row, date) ==
    LET sym == IF Len(row) > 0 THEN parseSymbolTag(row[1]) ELSE NoSuchCell
        act == IF Len(row) > 1 THEN parseActionTag(row[2]) ELSE NoSuchCell
        brk == IF Len(row) > 2 THEN parseBrokerageTag(row[3]) ELSE NoSuchCell
        ana == IF Len(row) > 3 THEN parseAnalystTag(row[4]) ELSE NoSuchCell
        prc == IF Len(row) > 5 THEN parsePriceTargetTag(row[6]) ELSE NoSuchCell
        rat == IF Len(row) > 6 THEN parseRatingTag(row[7]) ELSE NoSuchCell
        rs == <<sym, act, brk, ana, prc, rat>>
    IN  IF \E i \in 1..Len(rs) : ~ rs[i].ok THEN FirstRaised(rs)
        ELSE Return(RatingDict(sym.val.symbol, date, sym.val.exchange,
                               act.val, brk.val, ana.val, prc.val, rat.val))

\* getSymbolRatingsTable.processRow for one row; symbol and exchange are
\* the closure's
SymbolProcessRow(row, symbol, exchange) ==
    LET dat == IF Len(row) > 0 THEN parseDateTag(row[1]) ELSE NoSuchCell
        brk == IF Len(row) > 1 THEN parseBrokerageTag(row[2]) ELSE NoSuchCell
        ana == IF Len(row) > 2 THEN parseAnalystTag(row[3]) ELSE NoSuchCell
        act == IF Len(row) > 3 THEN parseActionTag(row[4]) ELSE NoSuchCell
        rat == IF Len(row) > 4 THEN parseRatingTag(row[5]) ELSE NoSuchCell
        prc == IF Len(row) > 5 THEN parsePriceTargetTag(row[6]) ELSE NoSuchCell
        rs == <<dat, brk, ana, act, rat, prc>>
    IN  IF \E i \in 1..Len(rs) : ~ rs[i].ok THEN FirstRaised(rs)
        ELSE Return(RatingDict(symbol, dat.val, exchange,
                               act.val, brk.val, ana.val, prc.val, rat.val))

\* ------------------------------------------------------------ buildDataFrame
Keys(d) == [i \in 1..Len(d) |-> d[i][1]]
HasKey(d, k) == \E i \in 1..Len(d) : d[i][1] = k
Get(d, k) == d[CHOOSE i \in 1..Len(d) : d[i][1] = k][2]
InSeq(x, seq) == \E i \in 1..Len(seq) : seq[i] = x
IndexOf(x, seq) == CHOOSE i \in 1..Len(seq) : seq[i] = x
NaN == "nan"

\* columns of pd.DataFrame(data): the dicts' keys by first appearance
RECURSIVE FrameColumns(_, _)
FrameColumns(data, acc) ==
    IF Len(data) = 0 THEN acc
    ELSE FrameColumns(Tail(data),
                      acc \o SelectSeq(Keys(Head(data)),
                                       LAMBDA k : ~ InSeq(k, acc)))

\* pd.DataFrame(data): a frame is its columns and its rows of values
DataFrame(data) ==
    LET cols == FrameColumns(data, <<>>)
    IN  [columns |-> cols,
         rows |-> [r \in 1..Len(data) |->
                     [c \in 1..Len(cols) |->
                        IF HasKey(data[r], cols[c]) THEN Get(data[r], cols[c])
                        ELSE NaN]]]

\* df.drop([name], axis=1, errors='ignore')
DropColumn(df, name) ==
    IF ~ InSeq(name, df.columns) THEN df
    ELSE LET k == IndexOf(name, df.columns)
             Cut(seq) == SubSeq(seq, 1, k - 1) \o SubSeq(seq, k + 1, Len(seq))
         IN  [columns |-> Cut(df.columns),
              rows |-> [r \in 1..Len(df.rows) |-> Cut(df.rows[r])]]

\* the uid's fields in another order
UidFieldsSymbolFirst == <<"symbol", "date", "brokerage">>

\* the fields joined into the uid, in the order df[[...]] selects them
UidFields == <<"date", "symbol", "brokerage">>

\* the uid of row r: '_'.join(row.values.astype(str))
UidOf(df, r) ==
    Join("_", [f \in 1..Len(UidFields) |->
                 df.rows[r][IndexOf(UidFields[f], df.columns)]])

\* df.insert(0, name, values)
InsertFirst(df, name, values) ==
    [columns |-> <<name>> \o df.columns,
     rows |-> [r \in 1..Len(df.rows) |-> <<values[r]>> \o df.rows[r]]]

buildDataFrame(data) ==
    LET df == DropColumn(DataFrame(data), "brokerage_code")
    IN  IF \E f \in 1..Len(UidFields) : ~ InSeq(UidFields[f], df.columns)
        THEN Raise("KeyError")
        ELSE IF InSeq("uid", df.columns) THEN Raise("ValueError")
        ELSE Return(InsertFirst(df, "uid",
                                [r \in 1..Len(df.rows) |-> UidOf(df, r)]))

\* ------------------------------------------------------------- documents
\* An element of a document, in document order:
\*   tag    : "h2", "div", "p", "li" or "table"
\*   single : whether the element's .string is defined (one text child)
\*   text   : the element's text
\*   id     : the id attribute ("" when absent)
\*   a      : the element's first anchor, None-able [href, text]
\*   head   : of a table, the thead's rows (tr), None without a thead
\*   body   : of a table, the tbody's rows (tr), None without a tbody
\* A row (tr) is [class : str, cells : sequence of cells].
Elem(tag, single, text) ==
    [tag |-> tag, single |-> single, text |-> text, id |-> "", a |-> None,
     head |-> None, body |-> None]

TableElem(head, body) ==
    [tag |-> "table", single |-> FALSE, text |-> "", id |-> "", a |-> None,
     head |-> head, body |-> body]

LinkItem(id, href) ==
    [tag |-> "li", single |-> FALSE, text |-> "Analyst Ratings", id |-> id,
     a |-> Some([href |-> Some(href), text |-> "Analyst Ratings"]),
     head |-> None, body |-> None]

\* whether a tag's class attribute holds the class c (bs4 matches any of the
\* attribute's blank-separated values, or the whole attribute)
HasClass(tr, c) == tr.class = c \/ InSeq(c, Split(tr.class, " "))

\* the indices of the elements of doc with the given tag, ascending
TagIndices(doc, tag) == {k \in 1..Len(doc) : doc[k].tag = tag}
Min(S) == CHOOSE x \in S : \A y \in S : x <= y

\* soup.find("table"): the index of the first table, None-able
FindTable(doc) ==
    IF TagIndices(doc, "table") = {} THEN None
    ELSE Some(Min(TagIndices(doc, "table")))

\* soup.find("h2", string=re.compile('.*<hint>.*')): the index of the first
\* h2 whose .string is defined and contains the hint, None-able
FindHeading(doc, hint) ==
    LET M == {k \in TagIndices(doc, "h2") :
                doc[k].single /\ Contains(doc[k].text, hint)}
    IN  IF M = {} THEN None ELSE Some(Min(M))

\* heading.findNext("table"): the index of the first table after element k
FindNextTable(doc, k) ==
    LET M == {j \in TagIndices(doc, "table") : j > k}
    IN  IF M = {} THEN None ELSE Some(Min(M))

\* a locator that falls back to the first table when no heading matches
LocateRootOrFirst(doc, hint) ==
    IF hint = None \/ FindHeading(doc, hint[1]) = None
    THEN Return(FindTable(doc))
    ELSE Return(FindNextTable(doc, FindHeading(doc, hint[1])[1]))

\* readTable, lines 34-37: the located root, or the AttributeError of
\* calling findNext on None
LocateRoot(doc, hint) ==
    IF hint = None THEN Return(FindTable(doc))
    ELSE LET h == FindHeading(doc, hint[1])
         IN  IF h = None THEN Raise("AttributeError")
             ELSE Return(FindNextTable(doc, h[1]))

\* a class test that takes the class attribute as one string
IsJunkWholeAttribute(tr) == tr.class = AD_CLASS

\* the rows left of a table section once the advertisement rows decompose
IsJunk(tr) == HasClass(tr, AD_CLASS)
NotJunk(tr) == ~ IsJunk(tr)
StripSection(sec) == IF sec = None THEN None ELSE Some(SelectSeq(sec[1], NotJunk))

\* readTable, lines 40-41, on the table element t
Decompose(t) == [t EXCEPT !.head = StripSection(t.head),
                          !.body = StripSection(t.body)]

\* find_all("th") / find_all("td") over the rows of a section
RECURSIVE AllCells(_)
AllCells(trs) ==
    IF Len(trs) = 0 THEN <<>> ELSE Head(trs).cells \o AllCells(Tail(trs))

RowCells(trs) == [k \in 1..Len(trs) |-> trs[k].cells]

\* readTable, lines 52-55: the row numbers printed
MismatchedRows(hs, rows) ==
    LET Bad(k) == Len(rows[k + 1]) # Len(hs)
        RECURSIVE Walk(_)
        Walk(k) == IF k >= Len(rows) THEN <<>>
                   ELSE (IF Bad(k) THEN <<k>> ELSE <<>>) \o Walk(k + 1)
    IN  Walk(0)

\* the .string of every div of the document, in document order: the
\* document's own divs, and the ticker-area and title-area divs of the cells
RECURSIVE CellDivs(_)
CellDivs(cells) ==
    IF Len(cells) = 0 THEN <<>>
    ELSE Head(cells).ticker \o Head(cells).title \o CellDivs(Tail(cells))

SectionDivs(sec) == IF sec = None THEN <<>> ELSE CellDivs(AllCells(sec[1]))

RECURSIVE DivStrings(_)
DivStrings(doc) ==
    IF Len(doc) = 0 THEN <<>>
    ELSE LET e == Head(doc)
         IN  (CASE e.tag = "div" /\ e.single -> <<e.text>>
                [] e.tag = "table" -> SectionDivs(e.head) \o SectionDivs(e.body)
                [] OTHER -> <<>>)
             \o DivStrings(Tail(doc))

HasDate(str) == DateReSearch(str) # None

\* a date resolution that never reads the page
ResolveDateIgnoringPage(doc, now) == Return(now)

\* getDailyRatingsTable, lines 183-187: the batch date
ResolveDateOf(doc, now) ==
    LET hits == SelectSeq(DivStrings(doc), HasDate)
    IN  IF Len(hits) = 0 THEN Return(now)
        ELSE StrpStrf(DateReSearch(hits[1])[1])

\* re.match('/stocks/(\w+)', href).groups()[0]
StocksPrefix == "/stocks/"
RECURSIVE WRun(_, _)
WRun(s, i) ==
    IF i <= Len(s) /\ Char(s, i) \in WordChars
    THEN Char(s, i) \o WRun(s, i + 1) ELSE ""

ExchangeOf(href) ==
    LET ex == WRun(href, Len(StocksPrefix) + 1)
    IN  IF OccursAt(href, StocksPrefix, 1) /\ ex # ""
        THEN Return(ex) ELSE Raise("AttributeError")

\* soup.find("li", {"id": "liAnalystRatings"}).find("a").get("href")
AnalystRatingsHref(doc) ==
    LET M == {k \in TagIndices(doc, "li") : doc[k].id = "liAnalystRatings"}
    IN  IF M = {} THEN Raise("AttributeError")
        ELSE IF doc[Min(M)].a = None THEN Raise("AttributeError")
        ELSE Return(doc[Min(M)].a[1].href)

\* ------------------------------------------------------- sample markup
NoCell(text) ==
    [text |-> text, a |-> None, ticker |-> None, title |-> None, sort |-> None]
LinkCell(text, href) ==
    [text |-> text, a |-> Some([href |-> Some(href), text |-> text]),
     ticker |-> None, title |-> None, sort |-> None]
TitledSymbolCell(ticker, exch, title) ==
    [text |-> ticker \o title,
     a |-> Some([href |-> Some("/stocks/" \o exch \o "/" \o ticker \o "/"),
                 text |-> ticker \o title]),
     ticker |-> Some(ticker), title |-> Some(title), sort |-> None]
SymbolCell(ticker, exch) == TitledSymbolCell(ticker, exch, "Co")
RatingCell(text, sort) ==
    [text |-> text, a |-> None, ticker |-> None, title |-> None, sort |-> sort]
Tr(class, cells) == [class |-> class, cells |-> cells]

MorganCell == LinkCell("Morgan Stanley",
                       ISSUER_PREFIX \o "morgan-stanley" \o ISSUER_SUFFIX)
RileyCell == LinkCell("B_Riley", ISSUER_PREFIX \o "34/")
AnalystCell == LinkCell(" J Doe ", "/analysts/j-doe/")
PriceCell == NoCell("$1,000.00 > $1,250.50")
BuyCell == RatingCell("Hold > Buy", Some("3"))
HoldCell == RatingCell("Hold", None)

\* rows of the daily page: 0 symbol, 1 action, 2 brokerage, 3 analyst,
\* 4 unused, 5 price target, 6 rating; the page's table has 8 columns
DailyCells(ticker, brk, rating) ==
    <<SymbolCell(ticker, "NASDAQ"), NoCell(" Upgraded by "), brk, AnalystCell,
      NoCell("$9.00"), PriceCell, rating>>
DailyRows ==
    { Tr("", DailyCells("AAPL", MorganCell, BuyCell)),
      Tr("", DailyCells("IBM", RileyCell, HoldCell) \o <<NoCell("Low")>>),
      Tr("", DailyCells("AAPL", NoCell("Citigroup"), BuyCell)),
      Tr("", SubSeq(DailyCells("MSFT", MorganCell, BuyCell), 1, 6)),
      Tr("", DailyCells("MSFT", RileyCell, BuyCell)
             \o <<NoCell("Low"), NoCell("extra")>>),
      \* an advertisement row; its title-area div carries a date
      Tr("bottom-sort",
         <<TitledSymbolCell("SPAM", "NASDAQ", "Sponsored (1/1/2021)")>>
         \o Tail(DailyCells("SPAM", MorganCell, BuyCell))) }
DailyHead == <<Tr("", [k \in 1..8 |-> NoCell("th")])>>

\* rows of the ratings-history page: 0 date, 1 brokerage, 2 analyst,
\* 3 action, 4 rating, 5 price target; the page's table has 7 columns
SymbolCells(day, brk, rating) ==
    <<NoCell(day), brk, NoCell("no analyst"), NoCell("Reiterated"), rating,
      PriceCell>>
SymbolRows ==
    { Tr("", SymbolCells("3/5/2021", MorganCell, BuyCell)),
      Tr("", SymbolCells("12/31/2020", RileyCell, HoldCell) \o <<NoCell("")>>),
      Tr("", SymbolCells("3/5/2021", NoCell("Citigroup"), BuyCell)),
      Tr("", SubSeq(SymbolCells("3/4/2021", MorganCell, BuyCell), 1, 5)),
      Tr("", SymbolCells("3/4/2021", RileyCell, BuyCell)
             \o <<NoCell(""), NoCell("extra")>>),
      Tr("bottom-sort sponsored", SymbolCells("1/1/2021", MorganCell, BuyCell)) }
SymbolHead == <<Tr("", [k \in 1..7 |-> NoCell("th")])>>

\* every sequence over S of length at most n
RECURSIVE SeqsUpTo(_, _)
SeqsUpTo(S, n) ==
    IF n = 0 THEN {<<>>}
    ELSE LET shorter == SeqsUpTo(S, n - 1)
         IN  shorter \cup {Append(q, x) : q \in shorter, x \in S}

\* a table that is not the ratings table
OtherTable(flow) ==
    TableElem(Some(IF flow = "daily" THEN DailyHead ELSE SymbolHead),
              Some(<<IF flow = "daily"
                     THEN Tr("", DailyCells("ZZZ", LinkCell("Other",
                                 ISSUER_PREFIX \o "other"), HoldCell))
                     ELSE Tr("", SymbolCells("1/1/2020", LinkCell("Other",
                                 ISSUER_PREFIX \o "other"), HoldCell))>>))

\* the ratings pages served: the ratings table t among headings, other
\* tables and texts carrying an as-of date
RatingsPages(t, flow) ==
    { <<Elem("div", TRUE, "Ratings for (3/5/2021)"),
        Elem("h2", TRUE, "Analyst Ratings History"), t>>,
      <<Elem("h2", TRUE, "Headlines"), OtherTable(flow),
        Elem("h2", TRUE, HISTORY_HINT), Elem("p", TRUE, "Updated (3/5/2021)"),
        t>>,
      <<t, Elem("h2", TRUE, HISTORY_HINT),
        Elem("div", FALSE, "Ratings for (3/5/2021)")>>,
      <<Elem("h2", TRUE, "ratings history"), t,
        Elem("div", TRUE, "(13/45/2021)")>>,
      <<Elem("h2", FALSE, "Full Ratings History"), t,
        Elem("div", TRUE, "no date"), Elem("div", TRUE, "(12/31/2020)"),
        Elem("div", TRUE, "(1/1/2021)")>> }

\* pages whose first table lacks a thead or a tbody, and a page without table
BrokenPages(flow) ==
    LET head == IF flow = "daily" THEN DailyHead ELSE SymbolHead
    IN  { <<Elem("h2", TRUE, HISTORY_HINT), TableElem(None, Some(<<>>))>>,
          <<Elem("h2", TRUE, HISTORY_HINT), TableElem(Some(head), None)>>,
          <<Elem("h2", TRUE, HISTORY_HINT)>> }

\* the stock-overview pages served
OverviewPages ==
    { <<Elem("h2", TRUE, "IBM"),
        LinkItem("liAnalystRatings", "/stocks/NYSE/IBM/price-target/")>>,
      <<Elem("h2", TRUE, "IBM"), LinkItem("liChart", "/stocks/NYSE/IBM/chart/")>>,
      <<LinkItem("liAnalystRatings", "/quote/IBM")>> }

\* ------------------------------------------------------------------ state
VARIABLES
    workflow,       \* "daily", "symbol": the workflow invoked; "readTable",
                    \* "build": a direct call of that function
    web,            \* the site: [overview, ratings], the documents it serves
    today,          \* datetime.today().strftime(DATE_FORMAT)
    symbol,         \* argument of getSymbolRatingsTable
    pc,             \* position of the invocation
    url,            \* the URL of the next fetch
    search_string,  \* readTable's argument, None-able
    source,         \* requests.get(url).text, None before the fetch
    soup,           \* the parsed document, None before it is parsed
    exchange,       \* getSymbolRatingsTable's exchange
    root,           \* readTable's root: index of the table in soup, None-able
    headers,        \* readTable's headers
    data,           \* readTable's data: one list of cells per row
    printed,        \* the row numbers readTable printed
    date,           \* getDailyRatingsTable's date
    i,              \* index of the next row of the row loop
    row_data,       \* the Record list
    kept,           \* indices (into data) of the rows whose record was appended
    result,         \* None, or what the invocation returned or raised
    traceback,      \* the source line that raised, 0 when nothing raised
    result2,        \* None, or what a repeated buildDataFrame call returned
    given,          \* the Record list as first handed to buildDataFrame
    events          \* the fetches, parses and inspections of documents, in
                    \* order, each with the URL of its document

vars == <<workflow, web, today, symbol, pc, url, search_string, source, soup,
          exchange, root, headers, data, printed, date, i, row_data, kept,
          result, traceback, result2, given, events>>

main_url(sym) == BASE_URL \o "/stocks/NASDAQ/" \o sym
daily_url == BASE_URL \o "/ratings/us/"

\* what the site serves at u
Serve(u) == IF u = main_url(symbol) THEN web.overview ELSE web.ratings

Idle ==
    /\ source = None /\ soup = None /\ exchange = "" /\ root = None
    /\ headers = <<>> /\ data = <<>> /\ printed = <<>> /\ date = ""
    /\ i = 1 /\ kept = <<>> /\ result = None /\ result2 = None
    /\ traceback = 0
    /\ events = <<>> /\ today = "2021-03-07" /\ symbol = "IBM"

Init ==
    /\ Idle
    /\ workflow \in {"daily", "symbol"}
    /\ \E rows \in SeqsUpTo(IF workflow = "daily" THEN DailyRows
                            ELSE SymbolRows, MaxRows) :
       \E page \in RatingsPages(
                     TableElem(Some(IF workflow = "daily" THEN DailyHead
                                    ELSE SymbolHead), Some(rows)), workflow)
                   \cup BrokenPages(workflow) :
       \E over \in IF workflow = "daily" THEN {<<>>} ELSE OverviewPages :
          web = [overview |-> over, ratings |-> page]
    /\ pc = IF workflow = "daily" THEN "read" ELSE "main"
    /\ url = IF workflow = "daily" THEN daily_url ELSE main_url(symbol)
    /\ search_string = None
    /\ row_data = <<>> /\ given = <<>>

\* an exception raised at the given line leaves the invocation
Fail(r, line) ==
    /\ pc' = "raised"
    /\ result' = r
    /\ traceback' = line

NoFail == UNCHANGED <<result, traceback>>

\* getSoup, line 20: the blocking fetch
Fetch ==
    /\ pc \in {"main", "read"}
    /\ source' = Some(Serve(url))
    /\ events' = Append(events, <<"fetch", url>>)
    /\ pc' = IF pc = "main" THEN "main_soup" ELSE "read_soup"
    /\ UNCHANGED <<workflow, web, today, symbol, url, search_string, soup,
                   exchange, root, headers, data, printed, date, i, row_data,
                   kept, result, traceback, result2, given>>

\* getSoup, line 21: the source is parsed into a document
MakeSoup ==
    /\ pc \in {"main_soup", "read_soup"}
    /\ soup' = source
    /\ events' = Append(events, <<"parse", url>>)
    /\ pc' = IF pc = "main_soup" THEN "discover" ELSE "locate"
    /\ UNCHANGED <<workflow, web, today, symbol, url, search_string, source,
                   exchange, root, headers, data, printed, date, i, row_data,
                   kept, result, traceback, result2, given>>

\* a discovery that goes on to locate the table in the document at hand,
\* without the fetch of the ratings-history page
DiscoverWithoutFetch ==
    /\ pc = "discover"
    /\ events' = Append(events, <<"inspect", url>>)
    /\ LET h == AnalystRatingsHref(soup[1])
           ex == IF h.ok /\ h.val # None THEN ExchangeOf(h.val[1])
                 ELSE Raise("TypeError")
       IN  IF ~ h.ok
           THEN Fail(h, 243) /\ UNCHANGED <<exchange, url, search_string>>
           ELSE IF ~ ex.ok
           THEN Fail(ex, 246) /\ UNCHANGED <<exchange, url, search_string>>
           ELSE /\ exchange' = ex.val
                /\ url' = BASE_URL \o h.val[1]
                /\ search_string' = Some(HISTORY_HINT)
                /\ pc' = "locate"
                /\ NoFail
    /\ UNCHANGED <<workflow, web, today, symbol, source, soup, root, headers,
                   data, printed, date, i, row_data, kept, result2, given>>

\* getSymbolRatingsTable, lines 243-250: the ratings link and the exchange
\* are read from the overview document; readTable is then called
Discover ==
    /\ pc = "discover"
    /\ events' = Append(events, <<"inspect", url>>)
    /\ LET h == AnalystRatingsHref(soup[1])
           ex == IF h.ok /\ h.val # None THEN ExchangeOf(h.val[1])
                 ELSE Raise("TypeError")
       IN  IF ~ h.ok
           THEN Fail(h, 243) /\ UNCHANGED <<exchange, url, search_string>>
           ELSE IF ~ ex.ok
           THEN Fail(ex, 246) /\ UNCHANGED <<exchange, url, search_string>>
           ELSE /\ exchange' = ex.val
                /\ url' = BASE_URL \o h.val[1]
                /\ search_string' = Some(HISTORY_HINT)
                /\ pc' = "read"
                /\ NoFail
    /\ UNCHANGED <<workflow, web, today, symbol, source, soup, root, headers,
                   data, printed, date, i, row_data, kept, result2, given>>

\* readTable, lines 34-37
Locate ==
    /\ pc = "locate"
    /\ events' = Append(events, <<"inspect", url>>)
    /\ LET r == LocateRoot(soup[1], search_string)
       IN  IF r.ok THEN root' = r.val /\ pc' = "ads" /\ NoFail
           ELSE Fail(r, 37) /\ UNCHANGED root
    /\ UNCHANGED <<workflow, web, today, symbol, url, search_string, source,
                   soup, exchange, headers, data, printed, date, i, row_data,
                   kept, result2, given>>

\* readTable, lines 40-41: AttributeError when no table was found
RemoveAds ==
    /\ pc = "ads"
    /\ IF root = None
       THEN Fail(Raise("AttributeError"), 40) /\ UNCHANGED soup
       ELSE /\ soup' = Some([soup[1] EXCEPT ![root[1]] = Decompose(@)])
            /\ pc' = "extract"
            /\ NoFail
    /\ UNCHANGED <<workflow, web, today, symbol, url, search_string, source,
                   exchange, root, headers, data, printed, date, i, row_data,
                   kept, result2, given, events>>

\* readTable, lines 44-49: AttributeError without a thead or a tbody
Extract ==
    /\ pc = "extract"
    /\ LET t == soup[1][root[1]]
       IN  IF t.head = None
           THEN Fail(Raise("AttributeError"), 46) /\ UNCHANGED <<headers, data>>
           ELSE IF t.body = None
           THEN Fail(Raise("AttributeError"), 48) /\ UNCHANGED <<headers, data>>
           ELSE /\ headers' = AllCells(t.head[1])
                /\ data' = RowCells(t.body[1])
                /\ pc' = "shape"
                /\ NoFail
    /\ UNCHANGED <<workflow, web, today, symbol, url, search_string, source,
                   soup, exchange, root, printed, date, i, row_data, kept,
                   result2, given, events>>

\* readTable, lines 52-58: the advisory length check, then the return to
\* the caller
CheckShape ==
    /\ pc = "shape"
    /\ printed' = MismatchedRows(headers, data)
    /\ pc' = CASE workflow = "daily" -> "date"
               [] workflow = "symbol" -> "rows"
               [] OTHER -> "returned"
    /\ result' = IF workflow \in {"daily", "symbol"} THEN result
                 ELSE Return(<<headers, data>>)
    /\ UNCHANGED <<workflow, web, today, symbol, url, search_string, source,
                   soup, exchange, root, headers, data, date, i, row_data,
                   kept, traceback, result2, given, events>>

\* getDailyRatingsTable, lines 182-187
ResolveDate ==
    /\ pc = "date"
    /\ events' = Append(events, <<"inspect", url>>)
    /\ LET d == ResolveDateOf(soup[1], today)
       IN  IF d.ok THEN date' = d.val /\ pc' = "rows" /\ NoFail
           ELSE Fail(d, 187) /\ UNCHANGED date
    /\ UNCHANGED <<workflow, web, today, symbol, url, search_string, source,
                   soup, exchange, root, headers, data, printed, i, row_data,
                   kept, result2, given>>

\* a row loop that rejects the rows readTable reported
RowResultShapeChecked(row) ==
    IF Len(row) # Len(headers) THEN Raise("ValueError")
    ELSE IF workflow = "daily" THEN DailyProcessRow(row, date)
    ELSE SymbolProcessRow(row, symbol, exchange)

\* the processRow() call of the row loop, lines 193 and 256
RowResult(row) ==
    IF workflow = "daily" THEN DailyProcessRow(row, date)
    ELSE SymbolProcessRow(row, symbol, exchange)

\* one turn of the row loop, lines 191-195 and 254-258: the record is
\* appended, or the exception is swallowed
ProcessRow ==
    /\ pc = "rows"
    /\ i <= Len(data)
    /\ LET r == RowResult(data[i])
       IN  IF r.ok
           THEN row_data' = Append(row_data, r.val) /\ kept' = Append(kept, i)
           ELSE UNCHANGED <<row_data, kept>>
    /\ i' = i + 1
    /\ UNCHANGED <<workflow, web, today, symbol, pc, url, search_string,
                   source, soup, exchange, root, headers, data, printed, date,
                   result, traceback, result2, given, events>>

\* a build that writes each uid into the dict of the list it is given
DataAfterBuildInPlace(d) ==
    [k \in 1..Len(d) |->
       IF HasKey(d[k], "uid") THEN d[k]
       ELSE << <<"uid", Join("_", <<Get(d[k], "date"), Get(d[k], "symbol"),
                                    Get(d[k], "brokerage")>>)>> >> \o d[k]]

\* buildDataFrame leaves the list it is given as it was: pd.DataFrame(data)
\* copies the values, and drop and insert act on the frame
DataAfterBuild(d) == d

\* lines 196 and 259: return buildDataFrame(row_data); line 68 raises the
\* KeyError of a frame without the uid's columns
Build ==
    /\ pc = "rows"
    /\ i > Len(data)
    /\ given' = row_data
    /\ result' = buildDataFrame(row_data)
    /\ row_data' = DataAfterBuild(row_data)
    /\ pc' = IF result'.ok THEN "returned" ELSE "raised"
    /\ traceback' = IF result'.ok THEN 0
                    ELSE IF result'.err = "KeyError" THEN 68 ELSE 69
    /\ UNCHANGED <<workflow, web, today, symbol, url, search_string, source,
                   soup, exchange, root, headers, data, printed, date, i,
                   kept, result2, events>>

Next == \/ Fetch \/ MakeSoup \/ Discover \/ Locate \/ RemoveAds \/ Extract
        \/ CheckShape \/ ResolveDate \/ ProcessRow \/ Build

\* the two workflows, each over every document the site may serve
Spec == Init /\ [][Next]_vars

\* ------------------------------------------------- readTable on its own
Heading(single, text) == Elem("h2", single, text)

\* the elements of a generated document
PageElems ==
    { Heading(TRUE, "Analyst " \o HISTORY_HINT),
      Heading(FALSE, HISTORY_HINT \o " for IBM"),
      Heading(TRUE, "Headlines"),
      TableElem(Some(SymbolHead),
                Some(<<Tr("", SymbolCells("3/5/2021", MorganCell, BuyCell)),
                       Tr(AD_CLASS, <<NoCell("sponsored")>>)>>)),
      OtherTable("symbol") }

InitTable ==
    /\ Idle
    /\ workflow = "readTable"
    /\ \E doc \in SeqsUpTo(PageElems, MaxElems) :
          web = [overview |-> <<>>, ratings |-> doc]
    /\ search_string \in {None, Some(HISTORY_HINT)}
    /\ pc = "read"
    /\ url = daily_url
    /\ row_data = <<>> /\ given = <<>>

NextTable == \/ Fetch \/ MakeSoup \/ Locate \/ RemoveAds \/ Extract
             \/ CheckShape

\* readTable(url, search_string) over generated documents
SpecTable == InitTable /\ [][NextTable]_vars

\* ---------------------------------------------- buildDataFrame on its own
SampleBrokerage(name) == [brokerage |-> name, brokerage_code |-> "34"]
SampleRating == [rating |-> "Buy", rating_code |-> 3]
SamplePrice == [neg |-> FALSE, int |-> 12, frac |-> "5"]
SampleDict(sym, day, action, name) ==
    RatingDict(sym, day, "NYSE", action, SampleBrokerage(name), None,
               SamplePrice, SampleRating)
NoCode(pair) == pair[1] # "brokerage_code"

\* the records a Record list is drawn from: two of one uid, names with the
\* separator in them, and a record without brokerage_code
SampleDicts ==
    { SampleDict("IBM", "2021-03-05", "Upgraded", "Morgan Stanley"),
      SampleDict("IBM", "2021-03-05", "Reiterated", "Morgan Stanley"),
      SampleDict("A", "2021-03-05", "Upgraded", "B_Riley"),
      SampleDict("A_B", "2021-03-05", "Upgraded", "Riley"),
      SelectSeq(SampleDict("MSFT", "2020-12-31", "Initiated", "Citi"), NoCode) }

InitBuild ==
    /\ Idle
    /\ workflow = "build"
    /\ web = [overview |-> <<>>, ratings |-> <<>>]
    /\ search_string = None
    /\ url = ""
    /\ pc = "call"
    /\ row_data \in SeqsUpTo(SampleDicts, MaxRecs)
    /\ given = row_data

\* buildDataFrame(data), called on a Record list
CallBuild ==
    /\ pc = "call"
    /\ result' = buildDataFrame(row_data)
    /\ row_data' = DataAfterBuild(row_data)
    /\ pc' = "built"
    /\ traceback' = IF result'.ok THEN 0
                    ELSE IF result'.err = "KeyError" THEN 68 ELSE 69
    /\ UNCHANGED <<workflow, web, today, symbol, url, search_string, source,
                   soup, exchange, root, headers, data, printed, date, i,
                   kept, result2, given, events>>

\* buildDataFrame(data), called again on the same list
BuildAgain ==
    /\ pc = "built"
    /\ result2' = buildDataFrame(row_data)
    /\ row_data' = DataAfterBuild(row_data)
    /\ pc' = "rebuilt"
    /\ UNCHANGED <<workflow, web, today, symbol, url, search_string, source,
                   soup, exchange, root, headers, data, printed, date, i,
                   kept, result, traceback, given, events>>

NextBuild == CallBuild \/ BuildAgain

SpecBuild == InitBuild /\ [][NextBuild]_vars

\* ----------------------------------------------------------------- claims
InWorkflow == workflow \in {"daily", "symbol"}

\* readTable has returned to the workflow
Shaped == \/ pc \in {"date", "rows", "returned"}
          \/ pc = "raised" /\ traceback \in {187, 68, 69}

\* the row loop has ended and buildDataFrame was called
Built == \/ pc = "returned"
         \/ pc = "raised" /\ traceback \in {68, 69}

Values(d) == [j \in 1..Len(d) |-> d[j][2]]
Column(df, name, r) == df.rows[r][IndexOf(name, df.columns)]

\* the row of the Dataset a record becomes, its uid left out
EmittedValues(d) == Values(SelectSeq(d, NoCode))

\* the indices of the rows of data that make a parser raise, and the others
RaisingRows == {k \in 1..Len(data) : ~ RowResult(data[k]).ok}
RECURSIVE Ascending(_, _)
Ascending(S, from) ==
    IF \A k \in S : k < from THEN <<>>
    ELSE LET m == Min({k \in S : k >= from}) IN <<m>> \o Ascending(S, m + 1)
SurvivingRows == Ascending((1..Len(data)) \ RaisingRows, 1)

\* C1: when exactly one row of the table makes a field parser raise, the
\* workflow returns a Dataset of (rows - 1) records: the records of the
\* other rows, unchanged and in the order of their rows.
C1_RowIsolation ==
    (InWorkflow /\ Built /\ Cardinality(RaisingRows) = 1) =>
        /\ result.ok
        /\ Len(result.val.rows) = Len(data) - 1
        /\ kept = SurvivingRows
        /\ \A p \in 1..Len(kept) :
              Tail(result.val.rows[p])
                = EmittedValues(RowResult(data[kept[p]]).val)

\* The row loop on its own: whatever rows raise, the Record list holds the
\* records of exactly the other rows, in order (the isolation the loop's
\* try/except gives before buildDataFrame is called).
RowLoopIsolation ==
    (InWorkflow /\ Built) =>
        /\ kept = SurvivingRows
        /\ given = [p \in 1..Len(kept) |-> RowResult(data[kept[p]]).val]

\* C2: a workflow invocation fails only when the table cannot be located;
\* once a table is located the invocation returns a Dataset, also when the
\* table has no rows or every row was dropped.
C2_WorkflowOutcome ==
    InWorkflow =>
        /\ Built => result.ok
        /\ pc = "raised" => root = None

\* the h2 headings of the served document whose text contains the hint
HintHeadings ==
    {k \in 1..Len(web.ratings) :
        /\ web.ratings[k].tag = "h2"
        /\ Contains(web.ratings[k].text, HISTORY_HINT)}
NoHeadingMatches == search_string # None /\ HintHeadings = {}
NoTableFollows ==
    /\ search_string # None
    /\ HintHeadings # {}
    /\ \A j \in 1..Len(web.ratings) :
          j > Min(HintHeadings) => web.ratings[j].tag # "table"
Tables == {k \in 1..Len(web.ratings) : web.ratings[k].tag = "table"}
PlainRows(trs) == SelectSeq(trs, LAMBDA tr : ~ InSeq(AD_CLASS, Split(tr.class, " ")))

\* what readTable does without a hint: the first table of the document is
\* the root, and its headers and rows are what is returned
FirstTableSelected ==
    (search_string = None /\ pc \in {"ads", "extract", "shape", "returned", "raised"}) =>
        /\ root = IF Tables = {} THEN None ELSE Some(Min(Tables))
        /\ pc = "returned" =>
              LET t == web.ratings[Min(Tables)]
              IN  result.val = <<AllCells(PlainRows(t.head[1])),
                                 RowCells(PlainRows(t.body[1]))>>

FailsWith(err) ==
    (NoHeadingMatches \/ NoTableFollows) =>
        /\ pc \notin {"extract", "shape", "returned"}
        /\ pc = "raised" => result = Raise(err) /\ traceback \in {37, 40}

\* C3 (as stated): with a hint that no h2 heading contains, or whose heading
\* has no table after it, readTable fails with TableNotFoundError; without a
\* hint the first table of the document is selected.
C3_TableNotFoundError == FailsWith("TableNotFoundError") /\ FirstTableSelected

\* C3 (amended): with a hint that no h2 heading contains, or whose heading
\* has no table after it, readTable fails with the AttributeError of a None
\* dereference (line 37 or 40); without a hint the first table of the
\* document is selected, whatever the headings say.
C3_TableLocation == FailsWith("AttributeError") /\ FirstTableSelected

C3_Witness ==
    /\ pc = "raised" /\ NoHeadingMatches /\ Tables # {}
    /\ \E k \in 1..Len(web.ratings) : web.ratings[k].tag = "h2"

\* the rows readTable has extracted
Extracted == \/ pc \in {"shape", "date", "rows", "returned"}
             \/ pc = "raised" /\ traceback \in {187, 68, 69}

\* the body rows of the located table, as served
ServedBody == web.ratings[root[1]].body[1]
Marked(tr) == InSeq(AD_CLASS, Split(tr.class, " "))

\* C4: the rows readTable returns are the cells of the body rows of the
\* located table that do not carry the class bottom-sort, in document order;
\* no row carrying it is among them, and none becomes a record.
C4_AdsFiltered ==
    (InWorkflow /\ Extracted) =>
        /\ data = RowCells(SelectSeq(ServedBody, LAMBDA tr : ~ Marked(tr)))
        /\ \A j \in 1..Len(ServedBody) :
              Marked(ServedBody[j]) =>
                 /\ ~ InSeq(ServedBody[j].cells, data)
                 /\ RowResult(ServedBody[j].cells).ok =>
                       ~ InSeq(RowResult(ServedBody[j].cells).val, row_data)

C4_Witness ==
    /\ InWorkflow /\ pc = "returned" /\ Len(data) >= 2
    /\ \E j \in 1..Len(ServedBody) :
          /\ Marked(ServedBody[j]) /\ ServedBody[j].class # AD_CLASS
          /\ j > 1 /\ j < Len(ServedBody)

BuildDone == workflow = "build" /\ pc \in {"built", "rebuilt"}

\* C5: uid is the first field of the Dataset, and the uid of every record
\* is date + "_" + symbol + "_" + brokerage, nothing escaped.
C5_Uid ==
    (BuildDone /\ result.ok) =>
        /\ result.val.columns[1] = "uid"
        /\ \A c \in 2..Len(result.val.columns) : result.val.columns[c] # "uid"
        /\ \A r \in 1..Len(result.val.rows) :
              result.val.rows[r][1]
                = Get(given[r], "date") \o "_" \o Get(given[r], "symbol")
                  \o "_" \o Get(given[r], "brokerage")

C5_Witness ==
    /\ BuildDone /\ result.ok
    /\ \E r \in 1..Len(given) :
          /\ Contains(Get(given[r], "brokerage"), "_")
          /\ result.val.rows[r][1] = "2021-03-05_A_B_Riley"

\* the Dataset holds one record per record of the list, in the list's order
SameRecords(df, list) ==
    /\ Len(df.rows) = Len(list)
    /\ \A r \in 1..Len(list) :
          \A c \in 2..Len(df.columns) :
             HasKey(list[r], df.columns[c]) =>
                df.rows[r][c] = Get(list[r], df.columns[c])

\* C6: for every Record list the Dataset has as many records as the list,
\* in the same order; records sharing a uid are all retained.
C6_NoDeduplication ==
    BuildDone => result.ok /\ SameRecords(result.val, given)

\* buildDataFrame on a list of at least one record: nothing is dropped or
\* reordered, whatever uids repeat
NonEmptyListKept ==
    (BuildDone /\ Len(given) > 0) => result.ok /\ SameRecords(result.val, given)

SeenRows(sec, k) ==
    IF sec = None THEN <<>>
    ELSE IF root = Some(k) THEN SelectSeq(sec[1], LAMBDA tr : ~ Marked(tr))
    ELSE sec[1]
SeenCells(k) ==
    AllCells(SeenRows(web.ratings[k].head, k))
        \o AllCells(SeenRows(web.ratings[k].body, k))
\* the texts of the page from element k on, in document order
RECURSIVE PageTexts(_)
PageTexts(k) ==
    IF k > Len(web.ratings) THEN <<>>
    ELSE (IF web.ratings[k].tag = "table"
          THEN [c \in 1..Len(SeenCells(k)) |-> SeenCells(k)[c].text]
          ELSE <<web.ratings[k].text>>) \o PageTexts(k + 1)
\* the strings of the div elements of the page from element k on
RECURSIVE PageDivs(_)
PageDivs(k) ==
    IF k > Len(web.ratings) THEN <<>>
    ELSE (CASE web.ratings[k].tag = "table" -> CellDivs(SeenCells(k))
            [] web.ratings[k].tag = "div" /\ web.ratings[k].single ->
                   <<web.ratings[k].text>>
            [] OTHER -> <<>>) \o PageDivs(k + 1)
DatedTexts == SelectSeq(PageTexts(1), HasDate)
DatedDivs == SelectSeq(PageDivs(1), HasDate)
IsoDateIn(str) == StrpStrf(DateReSearch(str)[1])
AllDatesAre(d) ==
    \A r \in 1..Len(result.val.rows) : Column(result.val, "date", r) = d

\* C8 (as stated): every record of the daily Dataset carries one date: the
\* parenthesized date of the page's text in ISO form whenever the pattern
\* occurs on the page, the current date only when it does not.
C8_DateFromPageText ==
    (workflow = "daily" /\ pc = "returned") =>
        IF DatedTexts = <<>> THEN AllDatesAre(today)
        ELSE /\ IsoDateIn(DatedTexts[1]).ok
             /\ AllDatesAre(IsoDateIn(DatedTexts[1]).val)

\* C8 (amended): every record of the daily Dataset carries one date: the
\* first parenthesized date in the string of the first div element whose
\* string holds the pattern, in ISO form; the current date when no div has
\* such a string, also when the pattern occurs elsewhere on the page. The
\* divs are those of the document as readTable leaves it: the divs of the
\* advertisement rows of the located table are gone, those of every other
\* table (its advertisement rows included) are searched.
C8_DateFromFirstDiv ==
    (workflow = "daily" /\ pc = "returned") =>
        IF DatedDivs = <<>> THEN AllDatesAre(today)
        ELSE /\ IsoDateIn(DatedDivs[1]).ok
             /\ AllDatesAre(IsoDateIn(DatedDivs[1]).val)

\* a page with an advertisement row dated 1/1/2021 in the located table and
\* two dated divs after it
C8_Witness ==
    /\ workflow = "daily" /\ pc = "returned"
    /\ Len(result.val.rows) >= 2
    /\ Len(DatedDivs) >= 2
    /\ \E tr \in 1..Len(ServedBody) : Marked(ServedBody[tr])
    /\ AllDatesAre("2020-12-31")

\* the cells the column plan of the workflow reads are there and well formed
BrokerageCells == {MorganCell, RileyCell, LinkCell("Other", ISSUER_PREFIX \o "other")}
WellFormedRow(row) ==
    IF workflow = "daily"
    THEN /\ Len(row) >= 7
         /\ row[1].ticker # None /\ row[1].title # None /\ row[1].a # None
         /\ row[3] \in BrokerageCells
         /\ row[6] = PriceCell
         /\ row[7] \in {BuyCell, HoldCell}
    ELSE /\ Len(row) >= 6
         /\ row[1].text \in {"3/5/2021", "3/4/2021", "12/31/2020", "1/1/2020"}
         /\ row[2] \in BrokerageCells
         /\ row[5] \in {BuyCell, HoldCell}
         /\ row[6] = PriceCell
BrokerageOf(row) == IF workflow = "daily" THEN row[3].a[1].text ELSE row[2].a[1].text
Mismatched(k) == Len(data[k]) # Len(headers)

\* C9: a body row whose cell count differs from the header's is printed by
\* readTable and returned all the same, and when the cells its column plan
\* reads are well formed the row yields its record in the Dataset.
C9_ShapeAdvisory ==
    InWorkflow =>
        /\ Shaped => \A k \in 1..Len(data) : Mismatched(k) <=> InSeq(k - 1, printed)
        /\ Built =>
             \A k \in 1..Len(data) :
                (Mismatched(k) /\ WellFormedRow(data[k])) =>
                    /\ InSeq(k, kept)
                    /\ result.ok
                    /\ Column(result.val, "brokerage", IndexOf(k, kept))
                         = BrokerageOf(data[k])

C9_Witness ==
    /\ InWorkflow /\ pc = "returned"
    /\ \E k \in 1..Len(data) : Len(data[k]) < Len(headers) /\ InSeq(k, kept)
    /\ \E k \in 1..Len(data) : Len(data[k]) > Len(headers) /\ InSeq(k, kept)
    /\ \E k \in 1..Len(data) : Len(data[k]) < Len(headers) /\ ~ InSeq(k, kept)

\* C10 (as stated): every fetch of an invocation completes before any
\* document is parsed or inspected.
C10_FetchesBeforeParsing ==
    \A a, b \in 1..Len(events) :
        (a < b /\ events[b][1] = "fetch") => events[a][1] = "fetch"

FetchedUrls == Values(SelectSeq(events, LAMBDA e : e[1] = "fetch"))

\* C10 (amended): a document is parsed and inspected only after its own
\* fetch has completed. The daily workflow makes one fetch, before all
\* parsing. The single-symbol workflow fetches the stock-overview page,
\* parses and inspects it for the ratings link, and only then fetches the
\* ratings-history page, whose parsing follows that second fetch.
C10_FetchThenParse ==
    /\ \A b \in 1..Len(events) :
          events[b][1] # "fetch" =>
             \E a \in 1..(b - 1) : events[a] = <<"fetch", events[b][2]>>
    /\ \A b \in 1..Len(events) :
          events[b][1] = "parse" => events[b - 1] = <<"fetch", events[b][2]>>
    /\ workflow = "daily" =>
          /\ Len(FetchedUrls) <= 1
          /\ \A b \in 1..Len(events) : events[b][1] = "fetch" => b = 1
    /\ workflow = "symbol" =>
          /\ Len(FetchedUrls) <= 2
          /\ Len(FetchedUrls) >= 1 => FetchedUrls[1] = main_url(symbol)
          /\ Len(FetchedUrls) = 2 =>
                /\ FetchedUrls[2] # main_url(symbol)
                /\ SubSeq(events, 1, 4)
                     = << <<"fetch", main_url(symbol)>>,
                          <<"parse", main_url(symbol)>>,
                          <<"inspect", main_url(symbol)>>,
                          <<"fetch", FetchedUrls[2]>> >>

C10_Witness ==
    /\ workflow = "symbol" /\ pc = "returned"
    /\ Len(FetchedUrls) = 2
    /\ Len(result.val.rows) >= 1

=============================================================================
